---- MODULE Spec2Model ----
(***************************************************************************)
(* Bank-statement processor: the ledger kept by App.tsx (ingest, edit,     *)
(* reset, category suggestion), with the validators of utils/ and the      *)
(* oracles of services/geminiService.ts.                                   *)
(*                                                                         *)
(* Strings are sequences of one-character strings, so that the validators  *)
(* and parsers are computed character by character as the code does.       *)
(* Numbers are exact decimals in units of 10^-FracDigits (Unit = 1.0);     *)
(* binary floating-point rounding is not modelled.  Messages are written   *)
(* without diacritics.                                                     *)
(***************************************************************************)
EXTENDS Integers, Sequences, FiniteSets, Bags, TLC

(***************************************************************************)
(* Bounds                                                                  *)
(***************************************************************************)
FracDigits == 3
MaxUploads == 2
MaxEdits == 2
MaxSuggests == 2

RECURSIVE Pow10(_)
Pow10(n) == IF n = 0 THEN 1 ELSE 10 * Pow10(n - 1)

Unit == Pow10(FracDigits)

(***************************************************************************)
(* Optional values: null / undefined is <<>>, a present value v is <<v>>.  *)
(***************************************************************************)
None == <<>>
Some(v) == <<v>>

(***************************************************************************)
(* Characters and string primitives (String.prototype of the runtime)      *)
(***************************************************************************)
DigitChars == <<"0", "1", "2", "3", "4", "5", "6", "7", "8", "9">>

IsDigit(c) == \E k \in 1..10 : DigitChars[k] = c

\* Number(c) for a digit character c
DigitVal(c) == (CHOOSE k \in 1..10 : DigitChars[k] = c) - 1

IsSpace(c) == c = " "

\* value.replace(/\D/g, '') and value.replace(/[^\d]/g, '')
StripNonDigits(s) == SelectSeq(s, IsDigit)

\* a plausible slip: the thousands separators are left in
KeepDots(s) == s

\* value.replace(/\./g, '')
RemoveDots(s) == SelectSeq(s, LAMBDA c : c # ".")

\* a plausible slip: without the g flag the match holds one comma at most
CountCommasFirstOnly(s) == IF \E k \in 1..Len(s) : s[k] = "," THEN 1 ELSE 0

\* (value.match(/,/g) || []).length
CountCommas(s) == Len(SelectSeq(s, LAMBDA c : c = ","))

\* index of the first occurrence of c in s, 0 when absent
IndexOf(s, c) ==
    IF \E k \in 1..Len(s) : s[k] = c
    THEN CHOOSE k \in 1..Len(s) : s[k] = c /\ \A j \in 1..(k - 1) : s[j] # c
    ELSE 0

\* value.replace(',', '.'): a string pattern replaces the first match only
ReplaceFirstComma(s) ==
    LET k == IndexOf(s, ",")
    IN  IF k = 0 THEN s ELSE [j \in 1..Len(s) |-> IF j = k THEN "." ELSE s[j]]

\* s.split(c)
RECURSIVE Split(_, _)
Split(s, c) ==
    LET k == IndexOf(s, c)
    IN  IF k = 0 THEN <<s>>
        ELSE <<SubSeq(s, 1, k - 1)>> \o Split(SubSeq(s, k + 1, Len(s)), c)

RECURSIVE TrimStart(_)
TrimStart(s) == IF s # <<>> /\ IsSpace(Head(s)) THEN TrimStart(Tail(s)) ELSE s

RECURSIVE TrimEnd(_)
TrimEnd(s) ==
    IF s # <<>> /\ IsSpace(s[Len(s)]) THEN TrimEnd(SubSeq(s, 1, Len(s) - 1)) ELSE s

\* s.trim()
Trim(s) == TrimEnd(TrimStart(s))

\* the longest prefix of s made of digits
RECURSIVE DigitPrefix(_)
DigitPrefix(s) ==
    IF s # <<>> /\ IsDigit(Head(s)) THEN <<Head(s)>> \o DigitPrefix(Tail(s)) ELSE <<>>

\* the natural number written by a sequence of digits (0 for none)
RECURSIVE DigitsToNat(_)
DigitsToNat(s) ==
    IF s = <<>> THEN 0
    ELSE 10 * DigitsToNat(SubSeq(s, 1, Len(s) - 1)) + DigitVal(s[Len(s)])

\* the decimal digits of a natural number, no leading zeros ("0" for 0)
RECURSIVE NatToDigits(_)
NatToDigits(n) ==
    IF n < 10 THEN <<DigitChars[n + 1]>>
    ELSE NatToDigits(n \div 10) \o <<DigitChars[(n % 10) + 1]>>

Abs(n) == IF n < 0 THEN -n ELSE n

UpperChars ==
    <<"A", "B", "C", "D", "E", "F", "G", "H", "I", "J", "K", "L", "M",
      "N", "O", "P", "Q", "R", "S", "T", "U", "V", "W", "X", "Y", "Z">>

LowerChars ==
    <<"a", "b", "c", "d", "e", "f", "g", "h", "i", "j", "k", "l", "m",
      "n", "o", "p", "q", "r", "s", "t", "u", "v", "w", "x", "y", "z">>

\* s.toLowerCase()
toLowerCase(s) ==
    [k \in 1..Len(s) |->
        IF IndexOf(UpperChars, s[k]) = 0 THEN s[k] ELSE LowerChars[IndexOf(UpperChars, s[k])]]

\* s.includes(part)
includes(s, part) ==
    \E k \in 0..(Len(s) - Len(part)) : SubSeq(s, k + 1, k + Len(part)) = part

\* the characters of the model in the order of their UTF-16 code units
CodeUnitOrder ==
    <<" ", "+", ",", "-", ".", "/">> \o DigitChars \o UpperChars \o LowerChars

\* a < b of two strings: the first differing code unit decides, a proper
\* prefix comes first
RECURSIVE StringLess(_, _)
StringLess(a, b) ==
    IF b = <<>> THEN FALSE
    ELSE IF a = <<>> THEN TRUE
    ELSE IF Head(a) = Head(b) THEN StringLess(Tail(a), Tail(b))
    ELSE IndexOf(CodeUnitOrder, Head(a)) < IndexOf(CodeUnitOrder, Head(b))

(***************************************************************************)
(* parseFloat: skips leading white space, then reads the longest prefix    *)
(* [+-] digits [. digits] | [+-] . digits; NaN when there is none.  The    *)
(* inputs of the model carry no exponent and no "Infinity" literal.        *)
(***************************************************************************)
NaN == [nan |-> TRUE, v |-> 0]
Num(n) == [nan |-> FALSE, v |-> n]

parseFloat(s) ==
    LET t == TrimStart(s)
        signed == t # <<>> /\ Head(t) \in {"-", "+"}
        sgn == IF signed /\ Head(t) = "-" THEN -1 ELSE 1
        u == IF signed THEN Tail(t) ELSE t
        int == DigitPrefix(u)
        rest == SubSeq(u, Len(int) + 1, Len(u))
        frac == IF rest # <<>> /\ Head(rest) = "." THEN DigitPrefix(Tail(rest)) ELSE <<>>
        \* fraction digits beyond FracDigits are not representable
        kept == SubSeq(frac, 1, IF Len(frac) < FracDigits THEN Len(frac) ELSE FracDigits)
    IN  IF int = <<>> /\ frac = <<>> THEN NaN
        ELSE Num(sgn * (DigitsToNat(int) * Unit
                        + DigitsToNat(kept) * Pow10(FracDigits - Len(kept))))

(***************************************************************************)
(* utils/currencyUtils.ts                                                  *)
(***************************************************************************)
Valid == [isValid |-> TRUE, message |-> ""]
Invalid(m) == [isValid |-> FALSE, message |-> m]

validateCurrency(value) ==
    IF value = <<>> \/ Trim(value) = <<>> THEN Valid
    ELSE
    LET cleanedValue == Trim(value)
        integerPart == Split(cleanedValue, ",")[1]
        thousandsGroups == Split(integerPart, ".")
    IN  IF \E k \in 1..Len(cleanedValue) :
               ~IsDigit(cleanedValue[k]) /\ cleanedValue[k] \notin {",", "."}
        THEN Invalid("Use apenas numeros, virgulas e pontos.")
        ELSE IF CountCommas(cleanedValue) > 1
        THEN Invalid("Apenas uma virgula e permitida.")
        ELSE IF IndexOf(cleanedValue, ",") # 0 /\ Len(Split(cleanedValue, ",")[2]) > 2
        THEN Invalid("Apenas duas casas decimais sao permitidas.")
        ELSE IF IndexOf(integerPart, ".") # 0 /\ Len(thousandsGroups[1]) > 3
        THEN Invalid("Formato de milhar invalido.")
        ELSE IF IndexOf(integerPart, ".") # 0
                /\ \E k \in 2..Len(thousandsGroups) : Len(thousandsGroups[k]) # 3
        THEN Invalid("Grupos de milhar devem ter 3 digitos.")
        ELSE Valid

parseCurrency(value) ==
    IF value = <<>> THEN 0
    ELSE LET normalized == ReplaceFirstComma(RemoveDots(value))
             parsed == parseFloat(normalized)
         IN  IF parsed.nan THEN 0 ELSE parsed.v

(***************************************************************************)
(* utils/dateUtils.ts                                                      *)
(***************************************************************************)
\* a plausible slip: every fourth year is taken for a leap year
IsLeapEveryFourth(y) == y % 4 = 0

IsLeap(y) == (y % 4 = 0 /\ y % 100 # 0) \/ y % 400 = 0

DaysInMonth(y, m) ==
    IF m = 2 THEN (IF IsLeap(y) THEN 29 ELSE 28)
    ELSE IF m \in {4, 6, 9, 11} THEN 30 ELSE 31

\* new Date("YYYY-MM-DDT00:00:00Z"): NaN for a month outside 1..12 or a day
\* outside 1..31; a day past the end of the month is either rejected (NaN) or
\* carried into the next month, depending on the engine.  Both outcomes are
\* given: carry = TRUE is the lenient engine.
UTCDate(y, m, d, carry) ==
    IF m \notin 1..12 \/ d \notin 1..31 THEN None
    ELSE IF d <= DaysInMonth(y, m) THEN Some([year |-> y, month |-> m, day |-> d])
    ELSE IF ~carry THEN None
    ELSE IF m = 12 THEN Some([year |-> y + 1, month |-> 1, day |-> d - DaysInMonth(y, m)])
    ELSE Some([year |-> y, month |-> m + 1, day |-> d - DaysInMonth(y, m)])

\* /^\d{4}-\d{2}-\d{2}$/
MatchesDatePattern(s) ==
    /\ Len(s) = 10
    /\ \A k \in {1, 2, 3, 4, 6, 7, 9, 10} : IsDigit(s[k])
    /\ s[5] = "-"
    /\ s[8] = "-"

validateDateOn(dateString, carry) ==
    IF dateString = <<>> THEN Invalid("A data nao pode estar em branco.")
    ELSE IF ~MatchesDatePattern(dateString) THEN Invalid("Formato invalido. Use AAAA-MM-DD.")
    ELSE
    LET year == DigitsToNat(SubSeq(dateString, 1, 4))
        month == DigitsToNat(SubSeq(dateString, 6, 7))
        day == DigitsToNat(SubSeq(dateString, 9, 10))
        date == UTCDate(year, month, day, carry)
    IN  IF \/ date = None
           \/ date[1].year # year
           \/ date[1].month # month
           \/ date[1].day # day
        THEN Invalid("Data invalida (ex: dia 31 em um mes com 30 dias).")
        ELSE Valid

\* the lenient engine is the one modelled by the state machine; every formula
\* about the validator alone is stated for both engines
validateDate(dateString) == validateDateOn(dateString, TRUE)

(***************************************************************************)
(* utils/cnpjUtils.ts                                                      *)
(***************************************************************************)
\* the weighted sum of the two loops of validateCNPJ over the first `size`
\* digits: pos starts at size - 7, decreases, and restarts at 9 below 2
RECURSIVE WeightedSum(_, _, _, _)
WeightedSum(numbers, size, i, pos) ==
    IF i < 1 THEN 0
    ELSE DigitVal(numbers[size - i + 1]) * pos
         + WeightedSum(numbers, size, i - 1, IF pos - 1 < 2 THEN 9 ELSE pos - 1)

\* a plausible slip: the first weight is one too high (pos = size - 6)
CheckDigitFromNextWeight(cnpjClean, size) ==
    LET sum == WeightedSum(SubSeq(cnpjClean, 1, size), size, size, size - 6)
    IN  IF sum % 11 < 2 THEN 0 ELSE 11 - (sum % 11)

CheckDigit(cnpjClean, size) ==
    LET sum == WeightedSum(SubSeq(cnpjClean, 1, size), size, size, size - 7)
    IN  IF sum % 11 < 2 THEN 0 ELSE 11 - (sum % 11)

\* a plausible slip: the empty string is sent through the checks
IsAbsentNever(cnpj) == FALSE

\* if (!cnpj)
IsAbsent(cnpj) == cnpj = <<>>

\* a plausible slip: only a string that is too short is turned away
WrongLengthShortOnly(cnpjClean) == Len(cnpjClean) < 14

\* cnpjClean.length !== 14
WrongLength(cnpjClean) == Len(cnpjClean) # 14

validateCNPJ(cnpj) ==
    IF IsAbsent(cnpj) THEN Valid
    ELSE
    LET cnpjClean == StripNonDigits(cnpj)
    IN  IF WrongLength(cnpjClean) THEN Invalid("O CNPJ deve ter 14 numeros.")
        ELSE IF \A k \in 2..14 : cnpjClean[k] = cnpjClean[1]
        THEN Invalid("CNPJ invalido (digitos repetidos).")
        ELSE IF CheckDigit(cnpjClean, 12) # DigitVal(cnpjClean[13])
        THEN Invalid("CNPJ invalido. Verifique os numeros.")
        ELSE IF CheckDigit(cnpjClean, 13) # DigitVal(cnpjClean[14])
        THEN Invalid("CNPJ invalido. Verifique os numeros.")
        ELSE Valid

\* s with the character c put in after position k
InsertAfter(s, k, c) == SubSeq(s, 1, k) \o <<c>> \o SubSeq(s, k + 1, Len(s))

AllDigits(s, from, to) == \A k \in from..to : IsDigit(s[k])

\* the first k in 1..Len(s) with P(k), 0 when there is none
FirstIndex(s, P(_)) ==
    IF \E k \in 1..Len(s) : P(k)
    THEN CHOOSE k \in 1..Len(s) : P(k) /\ \A j \in 1..(k - 1) : ~P(j)
    ELSE 0

\* .replace(/^(\d{2})(\d)/, '$1.$2')
MaskStep1(s) ==
    IF Len(s) >= 3 /\ AllDigits(s, 1, 3) THEN InsertAfter(s, 2, ".") ELSE s

\* .replace(/^(\d{2})\.(\d{3})(\d)/, '$1.$2.$3')
MaskStep2(s) ==
    IF Len(s) >= 7 /\ AllDigits(s, 1, 2) /\ s[3] = "." /\ AllDigits(s, 4, 7)
    THEN InsertAfter(s, 6, ".") ELSE s

\* .replace(/\.(\d{3})(\d)/, '.$1/$2')
MaskStep3(s) ==
    LET k == FirstIndex(s, LAMBDA j : j + 4 <= Len(s) /\ s[j] = "." /\ AllDigits(s, j + 1, j + 4))
    IN  IF k = 0 THEN s ELSE InsertAfter(s, k + 3, "/")

\* a plausible slip: the last replacement is left out
MaskStep4Skipped(s) == s

\* .replace(/(\d{4})(\d)/, '$1-$2')
MaskStep4(s) ==
    LET k == FirstIndex(s, LAMBDA j : j + 4 <= Len(s) /\ AllDigits(s, j, j + 4))
    IN  IF k = 0 THEN s ELSE InsertAfter(s, k + 3, "-")

formatCNPJForDisplay(cnpj) ==
    LET masked == MaskStep4(MaskStep3(MaskStep2(MaskStep1(StripNonDigits(cnpj)))))
    IN  SubSeq(masked, 1, IF Len(masked) < 18 THEN Len(masked) ELSE 18)

(***************************************************************************)
(* Number.prototype.toLocaleString('pt-BR', {minimumFractionDigits: 2,     *)
(* maximumFractionDigits: 2}) for a number x >= 0: rounds half up to two   *)
(* decimals, groups the integer digits by three with ".", decimal ",".     *)
(***************************************************************************)
RECURSIVE GroupThousands(_)
GroupThousands(digits) ==
    IF Len(digits) <= 3 THEN digits
    ELSE GroupThousands(SubSeq(digits, 1, Len(digits) - 3))
         \o <<".">> \o SubSeq(digits, Len(digits) - 2, Len(digits))

\* a plausible slip: x.toFixed(2), a point and no grouping
toFixedTwo(x) ==
    LET cents == (x + (Unit \div 200)) \div (Unit \div 100)
        frac == cents % 100
    IN  NatToDigits(cents \div 100)
        \o <<".">> \o <<DigitChars[(frac \div 10) + 1], DigitChars[(frac % 10) + 1]>>

toLocaleString(x) ==
    LET cents == (x + (Unit \div 200)) \div (Unit \div 100)
        frac == cents % 100
    IN  GroupThousands(NatToDigits(cents \div 100))
        \o <<",">> \o <<DigitChars[(frac \div 10) + 1], DigitChars[(frac % 10) + 1]>>

(***************************************************************************)
(* constants.ts is not part of the sources at hand: the category           *)
(* enumeration is a fixed set with a designated uncategorized member.      *)
(***************************************************************************)
Uncategorized == "Nao categorizado"
TRANSACTION_CATEGORIES == {Uncategorized, "Despesas Operacionais"}

(***************************************************************************)
(* Inputs: what the user types and what the oracles answer                 *)
(***************************************************************************)
Date20240229 == <<"2", "0", "2", "4", "-", "0", "2", "-", "2", "9">>
Date20230229 == <<"2", "0", "2", "3", "-", "0", "2", "-", "2", "9">>
Date20230228 == <<"2", "0", "2", "3", "-", "0", "2", "-", "2", "8">>
Date20231301 == <<"2", "0", "2", "3", "-", "1", "3", "-", "0", "1">>
DateSlashed == <<"3", "0", "/", "0", "2">>

Cnpj11222333000181 == <<"1", "1", "2", "2", "2", "3", "3", "3", "0", "0", "0", "1", "8", "1">>
CnpjPunctuated ==
    <<"1", "1", ".", "2", "2", "2", ".", "3", "3", "3", "/", "0", "0", "0", "1", "-", "8", "1">>
CnpjShort == <<"1", "2", "3">>

TextPix == <<"P", "i", "x">>
TextTed == <<"T", "E", "D">>
TextBlank == <<" ">>

\* values typed into the date cell
DateEdits == {Date20240229, Date20230229, <<>>}
\* values typed into the identifier cell (the cell shows the punctuated form)
CnpjEdits == {CnpjPunctuated, CnpjShort, <<>>}
Amount12345 == <<"1", "2", ".", "3", ",", "4", "5">>

\* values typed into the debit and credit cells
AmountEdits == {<<"0">>, Amount12345}
DescriptionEdits == {TextBlank}
CompanyNameEdits == {TextPix}

\* response.text of the date-correction oracle
DateOracleTexts == {Date20230228 \o <<" ">>, DateSlashed}
\* response.text of the category oracle, trimmed
CategoryOracleTexts == {"Despesas Operacionais", "Outros"}

RawRow(date, description, debit, credit, companyName, cnpj, category, isUnusual) ==
    [date |-> date, description |-> description, debit |-> debit, credit |-> credit,
     companyName |-> companyName, cnpj |-> cnpj, category |-> category,
     isUnusual |-> isUnusual, unusualReason |-> IF isUnusual THEN "valor extremo" ELSE ""]

\* parsed responses of the extraction oracle (amounts in units of 10^-FracDigits)
StatementThreeRows ==
    [transactions |->
        <<RawRow(Date20240229, <<>>, 0, 100 * Unit, <<>>, Cnpj11222333000181, "", FALSE),
          RawRow(Date20230229, TextTed, 50 * Unit, 0, <<>>, <<>>, "", FALSE),
          RawRow(Date20231301, <<>>, 0, 25 * Unit, TextPix, CnpjShort, "Outros", TRUE)>>,
     finalBalance |-> Some(125 * Unit)]

StatementOneRow ==
    [transactions |->
        <<RawRow(<<>>, TextBlank, (1234 * Unit) + (567 * (Unit \div 1000)), 0 - (5 * Unit),
                 TextPix, CnpjPunctuated, "", FALSE)>>,
     finalBalance |-> None]

StatementNoRows ==
    [transactions |-> <<>>, finalBalance |-> Some(10 * Unit)]

GeminiResponses == {StatementThreeRows, StatementOneRow, StatementNoRows}

(***************************************************************************)
(* State of App (App.tsx) and of its asynchronous calls in flight          *)
(***************************************************************************)
VARIABLES
    transactions,           \* the ledger: a sequence of Transaction records
    isLoading,
    error,                  \* None or Some(message)
    statementBalance,       \* None or Some(number)
    dateErrors,             \* id -> [message, suggestion]
    cnpjErrors,             \* id -> [message]
    currencyErrors,         \* <<id, field>> -> [message]
    categorizingId,         \* NoId or the id of the row being categorized
    file,                   \* TRUE when a document is selected
    processPc,              \* position of handleProcessFile: idle, extracting, validating
    dateValidationPromises, \* the lookups of the batch that Promise.all awaits
    initialCnpjErrors,      \* the identifier errors collected by handleProcessFile
    editLookups,            \* bag of date lookups awaited by handleDataChange
    categoryRequests,       \* bag of snapshots awaited by handleSuggestCategory
    nextId,                 \* the next identifier crypto.randomUUID() gives
    uploads, edits, suggests,
    filters,                \* the filter criteria of the view
    probe,                  \* the argument handed to a validator on its own
    verdict                 \* None or Some(result of the validator for probe)

vars == <<transactions, isLoading, error, statementBalance, dateErrors, cnpjErrors,
          currencyErrors, categorizingId, file, processPc, dateValidationPromises,
          initialCnpjErrors, editLookups, categoryRequests, nextId,
          uploads, edits, suggests, filters, probe, verdict>>

ledgerVars == <<transactions, isLoading, error, statementBalance, file>>
tableVars == <<dateErrors, cnpjErrors, currencyErrors>>
processVars == <<processPc, dateValidationPromises, initialCnpjErrors>>
counterVars == <<uploads, edits, suggests>>
probeVars == <<probe, verdict>>

NoId == 0
EmptyTable == <<>>

ProcessErrorMessage == "Falha ao processar o PDF."

\* the cleared criteria: every field at its empty or 'all' value
initialFilters ==
    [description |-> <<>>, startDate |-> <<>>, endDate |-> <<>>, minAmount |-> <<>>,
     maxAmount |-> <<>>, category |-> "", showUnusual |-> "all", transactionType |-> "all"]

\* no validator is being exercised on its own
NoProbe == [kind |-> "none", text |-> <<>>]

\* the state of App before the first upload
AppIdle ==
    /\ transactions = <<>>
    /\ isLoading = FALSE
    /\ error = None
    /\ statementBalance = None
    /\ dateErrors = EmptyTable
    /\ cnpjErrors = EmptyTable
    /\ currencyErrors = EmptyTable
    /\ categorizingId = NoId
    /\ file = FALSE
    /\ processPc = "idle"
    /\ dateValidationPromises = <<>>
    /\ initialCnpjErrors = EmptyTable
    /\ editLookups = EmptyBag
    /\ categoryRequests = EmptyBag
    /\ nextId = 1
    /\ uploads = 0
    /\ edits = 0
    /\ suggests = 0
    /\ filters = initialFilters

Init ==
    /\ AppIdle
    /\ probe = NoProbe
    /\ verdict = None

(***************************************************************************)
(* Record<string, E>: delete newErrors[key] and {...prev, [key]: entry}    *)
(***************************************************************************)
Without(table, key) == [k \in DOMAIN table \ {key} |-> table[k]]

With(table, key, entry) ==
    [k \in DOMAIN table \cup {key} |-> IF k = key THEN entry ELSE table[k]]

(***************************************************************************)
(* Running balance                                                         *)
(***************************************************************************)
\* x || 0
OrZero(x) == IF x = 0 THEN 0 ELSE x

RECURSIVE RunningBalance(_, _)
RunningBalance(list, k) ==
    IF k = 0 THEN 0
    ELSE RunningBalance(list, k - 1)
         + (OrZero(parseCurrency(list[k].credit)) - OrZero(parseCurrency(list[k].debit)))

\* calculateBalances: one pass that also assigns the fresh ids
calculateBalances(rows, firstId) ==
    [k \in 1..Len(rows) |->
        [id |-> firstId + k - 1,
         date |-> rows[k].date,
         description |-> rows[k].description,
         debit |-> rows[k].debit,
         credit |-> rows[k].credit,
         balance |-> RunningBalance(rows, k),
         companyName |-> rows[k].companyName,
         cnpj |-> rows[k].cnpj,
         category |-> rows[k].category,
         isUnusual |-> rows[k].isUnusual,
         unusualReason |-> rows[k].unusualReason]]

\* a plausible slip: the balance of a row is recomputed from that row alone
RecomputeBalancesPerRow(list) ==
    [k \in 1..Len(list) |->
        [list[k] EXCEPT !.balance =
            OrZero(parseCurrency(list[k].credit)) - OrZero(parseCurrency(list[k].debit))]]

\* the second map of the updater in handleDataChange
RecomputeBalances(list) ==
    [k \in 1..Len(list) |-> [list[k] EXCEPT !.balance = RunningBalance(list, k)]]

\* a plausible slip: the edited row is taken out and appended
ReplaceByIdAppending(list, updatedTransaction) ==
    SelectSeq(list, LAMBDA t : t.id # updatedTransaction.id) \o <<updatedTransaction>>

\* the first map of the updater in handleDataChange
ReplaceById(list, updatedTransaction) ==
    [k \in 1..Len(list) |->
        IF list[k].id = updatedTransaction.id THEN updatedTransaction ELSE list[k]]

\* transactionsWithFormattedCurrency of handleProcessFile
FormatExtracted(extracted) ==
    [k \in 1..Len(extracted) |->
        [extracted[k] EXCEPT
            !.debit = IF extracted[k].debit > 0 THEN toLocaleString(extracted[k].debit) ELSE <<>>,
            !.credit = IF extracted[k].credit > 0 THEN toLocaleString(extracted[k].credit) ELSE <<>>,
            !.category = IF extracted[k].category = "" THEN Uncategorized ELSE extracted[k].category]]

(***************************************************************************)
(* services/geminiService.ts: suggestDateCorrection                        *)
(***************************************************************************)
\* the oracle is only called for a date that is not blank
NeedsDateOracle(invalidDate) == Trim(invalidDate) # <<>>

\* a plausible slip: a default date instead of the original on failure
DateCorrectionOnFailureDefault(invalidDate) == Date20230228

\* the catch branch: the original is returned
DateCorrectionOnFailure(invalidDate) == invalidDate

\* the entry both handleProcessFile and handleDataChange build from a result
DateErrorEntry(message, suggestion, date) ==
    [message |-> message,
     suggestion |-> IF suggestion # date /\ validateDate(suggestion).isValid
                    THEN Some(suggestion) ELSE None]

(***************************************************************************)
(* What the page renders, which decides the handlers the user can reach    *)
(***************************************************************************)
\* {!isLoading && transactions.length > 0 && (... <DataTable/> ...)}
TableShown == ~isLoading /\ Len(transactions) > 0

\* {error && !isLoading && (... Tentar Novamente ...)}
ErrorShown == error # None /\ ~isLoading

\* {isInfoConfirmed && !file && !isLoading && <FileUpload/>}; the company form
\* that sets isInfoConfirmed can be confirmed whenever nothing is loading and
\* touches no state of the ledger
UploadShown == ~file /\ ~isLoading

(***************************************************************************)
(* The derived values of the useMemo hooks                                 *)
(***************************************************************************)
\* 0.01, the tolerance of the comparison
Tolerance == Unit \div 100

\* a plausible slip: the difference is taken without Math.abs
balanceMismatchSigned ==
    IF Len(transactions) = 0 THEN FALSE
    ELSE /\ statementBalance # None
         /\ transactions[Len(transactions)].balance - statementBalance[1] > Tolerance

balanceMismatch ==
    IF Len(transactions) = 0 THEN FALSE
    ELSE /\ statementBalance # None
         /\ Abs(transactions[Len(transactions)].balance - statementBalance[1]) > Tolerance

calculatedFinalBalance ==
    IF Len(transactions) = 0 THEN 0 ELSE transactions[Len(transactions)].balance

(***************************************************************************)
(* filteredTransactions                                                    *)
(***************************************************************************)
\* a plausible slip: the bounds are taken exclusive (<= and >= in the tests)
PassesAmountExclusive(t, criteria) ==
    LET amount == Abs(parseCurrency(t.credit) - parseCurrency(t.debit))
        min == parseFloat(criteria.minAmount)
        max == parseFloat(criteria.maxAmount)
    IN  /\ ~(criteria.minAmount # <<>> /\ ~min.nan /\ amount <= min.v)
        /\ ~(criteria.maxAmount # <<>> /\ ~max.nan /\ amount >= max.v)

\* the amount tests; a comparison with NaN is false
PassesAmount(t, criteria) ==
    LET amount == Abs(parseCurrency(t.credit) - parseCurrency(t.debit))
        min == parseFloat(criteria.minAmount)
        max == parseFloat(criteria.maxAmount)
    IN  /\ ~(criteria.minAmount # <<>> /\ ~min.nan /\ amount < min.v)
        /\ ~(criteria.maxAmount # <<>> /\ ~max.nan /\ amount > max.v)

\* a plausible slip: the type is decided by the sign of credit - debit
PassesTypeByNet(t, criteria) ==
    LET net == parseCurrency(t.credit) - parseCurrency(t.debit)
    IN  /\ ~(criteria.transactionType = "debit" /\ net >= 0)
        /\ ~(criteria.transactionType = "credit" /\ net <= 0)

\* the transaction type tests
PassesType(t, criteria) ==
    /\ ~(criteria.transactionType = "debit" /\ parseCurrency(t.debit) <= 0)
    /\ ~(criteria.transactionType = "credit" /\ parseCurrency(t.credit) <= 0)

\* the callback of transactions.filter: each test returns false at once
PassesFilter(t, criteria) ==
    IF /\ criteria.description # <<>>
       /\ ~includes(toLowerCase(t.description), toLowerCase(criteria.description))
    THEN FALSE
    ELSE IF criteria.category # "" /\ t.category # criteria.category THEN FALSE
    ELSE IF criteria.showUnusual = "unusualOnly" /\ ~t.isUnusual THEN FALSE
    ELSE IF criteria.showUnusual = "commonOnly" /\ t.isUnusual THEN FALSE
    ELSE IF criteria.startDate # <<>> /\ StringLess(t.date, criteria.startDate) THEN FALSE
    ELSE IF criteria.endDate # <<>> /\ StringLess(criteria.endDate, t.date) THEN FALSE
    ELSE IF ~PassesAmount(t, criteria) THEN FALSE
    ELSE PassesType(t, criteria)

\* a plausible slip: the view is handed on newest first
filteredTransactionsReversed ==
    LET view == SelectSeq(transactions, LAMBDA t : PassesFilter(t, filters))
    IN  [k \in 1..Len(view) |-> view[Len(view) + 1 - k]]

filteredTransactions == SelectSeq(transactions, LAMBDA t : PassesFilter(t, filters))

(***************************************************************************)
(* handleDataChange                                                        *)
(***************************************************************************)
\* a plausible slip: the description edit re-validates the date as well
IsDateFieldOrDescription(fieldChanged) == fieldChanged \in {"date", "description"}

IsDateField(fieldChanged) == fieldChanged = "date"

IsCnpjField(fieldChanged) == fieldChanged = "cnpj"

\* a plausible slip: one key for the two amount cells of a row
CurrencyErrorKeyByRow(id, fieldChanged) == <<id, "debit">>

\* `${id}-${fieldChanged}`
CurrencyErrorKey(id, fieldChanged) == <<id, fieldChanged>>

IsCurrencyField(fieldChanged) == fieldChanged \in {"debit", "credit"}

LookupRequest(id, date, message) == [id |-> id, date |-> date, message |-> message]

\* the synchronous part of handleDataChange, up to the await of the date branch
handleDataChange(updatedTransaction, fieldChanged) ==
    LET id == updatedTransaction.id
        date == updatedTransaction.date
        dateResult == validateDate(date)
        cnpjResult == validateCNPJ(updatedTransaction.cnpj)
        value == updatedTransaction[fieldChanged]
        errorKey == CurrencyErrorKey(id, fieldChanged)
    IN  /\ transactions' = RecomputeBalances(ReplaceById(transactions, updatedTransaction))
        /\ IF IsDateField(fieldChanged)
           THEN IF dateResult.isValid
                THEN /\ dateErrors' = Without(dateErrors, id)
                     /\ editLookups' = editLookups
                ELSE IF NeedsDateOracle(date)
                THEN /\ dateErrors' = Without(dateErrors, id)
                     /\ editLookups' =
                            editLookups (+) SetToBag({LookupRequest(id, date, dateResult.message)})
                \* suggestDateCorrection returns "" at once: no other event
                \* comes between the await and its continuation
                ELSE /\ dateErrors' = With(Without(dateErrors, id), id,
                                           DateErrorEntry(dateResult.message, <<>>, date))
                     /\ editLookups' = editLookups
           ELSE UNCHANGED <<dateErrors, editLookups>>
        /\ IF IsCnpjField(fieldChanged)
           THEN cnpjErrors' = IF cnpjResult.isValid
                              THEN Without(cnpjErrors, id)
                              ELSE With(Without(cnpjErrors, id), id,
                                        [message |-> cnpjResult.message])
           ELSE UNCHANGED cnpjErrors
        /\ IF IsCurrencyField(fieldChanged)
           THEN currencyErrors' = IF validateCurrency(value).isValid
                                  THEN Without(currencyErrors, errorKey)
                                  ELSE With(Without(currencyErrors, errorKey), errorKey,
                                            [message |-> validateCurrency(value).message])
           ELSE UNCHANGED currencyErrors

\* the continuation of handleDataChange after the await of the date branch
ApplyDateLookup(request, suggestion) ==
    /\ dateErrors' = With(dateErrors, request.id,
                          DateErrorEntry(request.message, suggestion, request.date))
    /\ editLookups' = editLookups (-) SetToBag({request})
    /\ UNCHANGED <<ledgerVars, cnpjErrors, currencyErrors, categorizingId, processVars,
                   categoryRequests, nextId, counterVars, filters, probeVars>>

DateOracleAnswersEdit(request, text) ==
    /\ BagIn(request, editLookups)
    /\ ApplyDateLookup(request, Trim(text))

DateOracleFailsEdit(request) ==
    /\ BagIn(request, editLookups)
    /\ ApplyDateLookup(request, DateCorrectionOnFailure(request.date))

(***************************************************************************)
(* DataTable.tsx: handleFieldChange                                        *)
(***************************************************************************)
Fields == {"date", "description", "companyName", "cnpj", "category", "debit", "credit"}

FieldInputs(field) ==
    CASE field = "date" -> DateEdits
      [] field = "description" -> DescriptionEdits
      [] field = "companyName" -> CompanyNameEdits
      [] field = "cnpj" -> CnpjEdits
      [] field = "category" -> TRANSACTION_CATEGORIES
      [] field \in {"debit", "credit"} -> AmountEdits

ProcessedValue(field, value) == IF field = "cnpj" THEN StripNonDigits(value) ELSE value

\* what the cell of a field shows; the change event fires for another value
CellValue(transaction, field) ==
    IF field = "cnpj" THEN formatCNPJForDisplay(transaction.cnpj) ELSE transaction[field]

handleFieldChange(i, field, value) ==
    /\ TableShown
    /\ edits < MaxEdits
    /\ i \in 1..Len(transactions)
    /\ value # CellValue(transactions[i], field)
    /\ handleDataChange([transactions[i] EXCEPT ![field] = ProcessedValue(field, value)], field)
    /\ edits' = edits + 1
    /\ UNCHANGED <<isLoading, error, statementBalance, file, categorizingId, processVars,
                   categoryRequests, nextId, uploads, suggests, filters, probeVars>>

\* the button under a date error that shows the suggestion: its onClick hands
\* the suggestion to handleFieldChange as the new date of the row
AcceptDateSuggestion(i) ==
    /\ TableShown
    /\ edits < MaxEdits
    /\ i \in 1..Len(transactions)
    /\ transactions[i].id \in DOMAIN dateErrors
    /\ dateErrors[transactions[i].id].suggestion # None
    /\ handleDataChange([transactions[i] EXCEPT
                             !.date = dateErrors[transactions[i].id].suggestion[1]], "date")
    /\ edits' = edits + 1
    /\ UNCHANGED <<isLoading, error, statementBalance, file, categorizingId, processVars,
                   categoryRequests, nextId, uploads, suggests, filters, probeVars>>

(***************************************************************************)
(* handleFileSelect and handleProcessFile                                  *)
(***************************************************************************)
\* handleFileSelect, and handleProcessFile up to the await of the extraction
handleFileSelect ==
    /\ UploadShown
    /\ uploads < MaxUploads
    /\ file' = TRUE
    /\ transactions' = <<>>
    /\ error' = None
    /\ dateErrors' = EmptyTable
    /\ cnpjErrors' = EmptyTable
    /\ currencyErrors' = EmptyTable
    /\ isLoading' = TRUE
    /\ statementBalance' = None
    /\ processPc' = "extracting"
    /\ uploads' = uploads + 1
    /\ UNCHANGED <<categorizingId, dateValidationPromises, initialCnpjErrors, editLookups,
                   categoryRequests, nextId, edits, suggests, filters, probeVars>>

\* processBankStatementPDF throws (the call, the JSON or its shape): the catch
\* and finally blocks of handleProcessFile
ExtractionFails ==
    /\ processPc = "extracting"
    /\ error' = Some(ProcessErrorMessage)
    /\ isLoading' = FALSE
    /\ processPc' = "idle"
    /\ UNCHANGED <<transactions, statementBalance, file, tableVars, categorizingId,
                   dateValidationPromises, initialCnpjErrors, editLookups,
                   categoryRequests, nextId, counterVars, filters, probeVars>>

\* a plausible slip: Promise.race instead of Promise.all
AnySettled(promises) == promises = <<>> \/ \E k \in 1..Len(promises) : promises[k].settled

\* await Promise.all(dateValidationPromises)
AllSettled(promises) == \A k \in 1..Len(promises) : promises[k].settled

\* the promises pushed by the validation loop, in ledger order; a blank date
\* is answered "" without a call to the oracle
DatePromises(list) ==
    LET invalid == SelectSeq(list, LAMBDA t : ~validateDate(t.date).isValid)
    IN  [k \in 1..Len(invalid) |->
            [id |-> invalid[k].id,
             date |-> invalid[k].date,
             message |-> validateDate(invalid[k].date).message,
             settled |-> ~NeedsDateOracle(invalid[k].date),
             suggestion |-> <<>>]]

\* initialCnpjErrors of the validation loop
CnpjErrorsOf(list) ==
    [id \in {list[k].id : k \in {j \in 1..Len(list) : ~validateCNPJ(list[j].cnpj).isValid}} |->
        [message |->
            validateCNPJ(list[CHOOSE k \in 1..Len(list) : list[k].id = id].cnpj).message]]

\* a plausible slip: only the results that carry a suggestion are recorded
DateErrorsOfSuggested(promises) ==
    [id \in {promises[k].id : k \in {j \in 1..Len(promises) : promises[j].suggestion # <<>>}} |->
        LET p == promises[CHOOSE k \in 1..Len(promises) : promises[k].id = id]
        IN  DateErrorEntry(p.message, p.suggestion, p.date)]

\* initialDateErrors, filled from the results of Promise.all
DateErrorsOf(promises) ==
    [id \in {promises[k].id : k \in 1..Len(promises)} |->
        LET p == promises[CHOOSE k \in 1..Len(promises) : promises[k].id = id]
        IN  DateErrorEntry(p.message, p.suggestion, p.date)]

\* handleProcessFile after Promise.all: the remaining statements of the try
\* block and the finally block
FinishValidation(promises, cnpjTable) ==
    /\ dateErrors' = DateErrorsOf(promises)
    /\ cnpjErrors' = cnpjTable
    /\ isLoading' = FALSE
    /\ processPc' = "idle"
    /\ dateValidationPromises' = SelectSeq(promises, LAMBDA p : ~p.settled)
    /\ initialCnpjErrors' = EmptyTable

AwaitValidation(promises, cnpjTable) ==
    /\ processPc' = "validating"
    /\ dateValidationPromises' = promises
    /\ initialCnpjErrors' = cnpjTable
    /\ UNCHANGED <<isLoading, dateErrors, cnpjErrors>>

\* handleProcessFile from the answer of the extraction to Promise.all
ExtractionSucceeds(response) ==
    /\ processPc = "extracting"
    /\ LET withBalances == calculateBalances(FormatExtracted(response.transactions), nextId)
           promises == DatePromises(withBalances)
           cnpjTable == CnpjErrorsOf(withBalances)
       IN  /\ transactions' = withBalances
           /\ statementBalance' = response.finalBalance
           /\ nextId' = nextId + Len(withBalances)
           /\ IF AllSettled(promises)
              THEN FinishValidation(promises, cnpjTable)
              ELSE AwaitValidation(promises, cnpjTable)
    /\ UNCHANGED <<error, file, currencyErrors, categorizingId, editLookups,
                   categoryRequests, counterVars, filters, probeVars>>

\* one lookup of the batch settles; the last one resumes handleProcessFile
SettleBatchLookup(k, suggestion) ==
    /\ k \in 1..Len(dateValidationPromises)
    /\ ~dateValidationPromises[k].settled
    /\ LET promises == [dateValidationPromises EXCEPT ![k].settled = TRUE,
                                                      ![k].suggestion = suggestion]
       IN  IF processPc = "validating" /\ AllSettled(promises)
           THEN FinishValidation(promises, initialCnpjErrors)
           ELSE /\ dateValidationPromises' = promises
                /\ UNCHANGED <<isLoading, dateErrors, cnpjErrors, processPc, initialCnpjErrors>>
    /\ UNCHANGED <<transactions, error, statementBalance, file, currencyErrors, categorizingId,
                   editLookups, categoryRequests, nextId, counterVars, filters, probeVars>>

DateOracleAnswersBatch(k, text) ==
    /\ k \in 1..Len(dateValidationPromises)
    /\ SettleBatchLookup(k, Trim(text))

DateOracleFailsBatch(k) ==
    /\ k \in 1..Len(dateValidationPromises)
    /\ SettleBatchLookup(k, DateCorrectionOnFailure(dateValidationPromises[k].date))

(***************************************************************************)
(* handleReset                                                             *)
(***************************************************************************)
handleReset ==
    /\ ErrorShown \/ TableShown
    /\ file' = FALSE
    /\ transactions' = <<>>
    /\ error' = None
    /\ isLoading' = FALSE
    /\ statementBalance' = None
    /\ dateErrors' = EmptyTable
    /\ cnpjErrors' = EmptyTable
    /\ currencyErrors' = EmptyTable
    /\ filters' = initialFilters
    /\ UNCHANGED <<categorizingId, processVars, editLookups, categoryRequests, nextId,
                   counterVars, probeVars>>

(***************************************************************************)
(* handleSuggestCategory and suggestNewCategory                            *)
(***************************************************************************)
\* a plausible slip: the busy flag is not consulted
SuggestBlockedNever(busyId) == FALSE

\* if (!transaction || categorizingId) return; the row is always found, the
\* id being that of a rendered row
SuggestBlocked(busyId) == busyId # NoId

\* a plausible slip: the answer is returned without the test of membership
AcceptedCategoryUnchecked(text, currentCategory) == text

\* the answer of suggestNewCategory for the text of the oracle
AcceptedCategory(text, currentCategory) ==
    IF text \in TRANSACTION_CATEGORIES THEN text ELSE currentCategory

handleSuggestCategory(i) ==
    /\ TableShown
    /\ suggests < MaxSuggests
    /\ i \in 1..Len(transactions)
    /\ IF SuggestBlocked(categorizingId)
       THEN UNCHANGED vars
       \* a blank description is answered at once with the current category
       ELSE IF Trim(transactions[i].description) = <<>>
       THEN UNCHANGED vars
       ELSE /\ categorizingId' = transactions[i].id
            /\ categoryRequests' =
                   categoryRequests (+) SetToBag({[transaction |-> transactions[i]]})
            /\ suggests' = suggests + 1
            /\ UNCHANGED <<ledgerVars, tableVars, processVars, editLookups, nextId,
                           uploads, edits, filters, probeVars>>

\* a plausible slip: the flag is cleared only if the row is still there
BusyAfterIfRowKept(request) ==
    IF \E k \in 1..Len(transactions) : transactions[k].id = request.transaction.id
    THEN NoId ELSE categorizingId

\* finally { setCategorizingId(null) }
BusyAfter(request) == NoId

\* handleSuggestCategory after the await
ApplyCategory(request, newCategory) ==
    /\ BagIn(request, categoryRequests)
    /\ IF newCategory # request.transaction.category
       THEN handleDataChange([request.transaction EXCEPT !.category = newCategory], "category")
       ELSE UNCHANGED <<transactions, tableVars, editLookups>>
    /\ categorizingId' = BusyAfter(request)
    /\ categoryRequests' = categoryRequests (-) SetToBag({request})
    /\ UNCHANGED <<isLoading, error, statementBalance, file, processVars, nextId, counterVars, filters, probeVars>>

CategoryOracleAnswers(request, text) ==
    /\ BagIn(request, categoryRequests)
    /\ ApplyCategory(request, AcceptedCategory(text, request.transaction.category))

CategoryOracleFails(request) ==
    /\ BagIn(request, categoryRequests)
    /\ ApplyCategory(request, request.transaction.category)

(***************************************************************************)
(* Specification                                                           *)
(***************************************************************************)
Next ==
    \/ handleFileSelect
    \/ ExtractionFails
    \/ \E response \in GeminiResponses : ExtractionSucceeds(response)
    \/ \E k \in 1..Len(dateValidationPromises), text \in DateOracleTexts :
           DateOracleAnswersBatch(k, text)
    \/ \E k \in 1..Len(dateValidationPromises) : DateOracleFailsBatch(k)
    \/ \E i \in 1..Len(transactions), field \in Fields :
           \E value \in FieldInputs(field) : handleFieldChange(i, field, value)
    \/ \E i \in 1..Len(transactions) : AcceptDateSuggestion(i)
    \/ \E request \in BagToSet(editLookups), text \in DateOracleTexts :
           DateOracleAnswersEdit(request, text)
    \/ \E request \in BagToSet(editLookups) : DateOracleFailsEdit(request)
    \/ \E i \in 1..Len(transactions) : handleSuggestCategory(i)
    \/ \E request \in BagToSet(categoryRequests), text \in CategoryOracleTexts :
           CategoryOracleAnswers(request, text)
    \/ \E request \in BagToSet(categoryRequests) : CategoryOracleFails(request)
    \/ handleReset

Spec == Init /\ [][Next]_vars

\* the promise of generateContent settles: every category request in flight
\* is answered or fails
CategorySettles ==
    \E request \in BagToSet(categoryRequests) :
        \/ CategoryOracleFails(request)
        \/ \E text \in CategoryOracleTexts : CategoryOracleAnswers(request, text)

LiveSpec == Spec /\ WF_vars(CategorySettles)

(***************************************************************************)
(* The validators on their own: each is applied to an argument drawn from  *)
(* a set of strings                                                        *)
(***************************************************************************)
MaxCurrencyLen == 5

Cnpj11222333002800 == <<"1", "1", "2", "2", "2", "3", "3", "3", "0", "0", "2", "8", "0", "0">>

\* the identifiers with a correct checksum the arguments are built around
CnpjBases == {Cnpj11222333000181, Cnpj11222333002800}

\* every identifier that differs from a base in at most one digit
CnpjOneDigitChanged ==
    {[base EXCEPT ![k] = DigitChars[d]] : base \in CnpjBases, k \in 1..14, d \in 1..10}

CnpjRepeated == {[k \in 1..14 |-> DigitChars[d]] : d \in 1..10}

\* arguments whose digits are not 14: prefixes, extensions, punctuation alone
CnpjOtherLengths ==
    {SubSeq(Cnpj11222333000181, 1, n) : n \in 0..13}
    \cup {Cnpj11222333000181 \o <<"1">>, Cnpj11222333000181 \o <<"1", "2">>,
          <<".">>, <<"-", "/">>, SubSeq(CnpjPunctuated, 1, 17), CnpjPunctuated \o <<"0">>}

CnpjProbes == CnpjOneDigitChanged \cup CnpjRepeated \cup CnpjOtherLengths \cup {CnpjPunctuated}

TwoDigits(n) == <<DigitChars[(n \div 10) + 1], DigitChars[(n % 10) + 1]>>

ProbeYears == {<<"1", "9", "0", "0">>, <<"2", "0", "0", "0">>, <<"2", "0", "2", "3">>,
               <<"2", "0", "2", "4">>}

\* every YYYY-MM-DD with a year of ProbeYears, a month 00..13 and a day 00..32
PatternedDates ==
    {y \o <<"-">> \o TwoDigits(m) \o <<"-">> \o TwoDigits(d) :
        y \in ProbeYears, m \in 0..13, d \in 0..32}

\* strings that are not of the pattern
UnpatternedDates ==
    {<<>>, DateSlashed, SubSeq(Date20240229, 1, 9), Date20240229 \o <<"0">>,
     Date20240229 \o <<" ">>, <<" ">> \o Date20240229,
     <<"2", "0", "2", "4", "/", "0", "2", "/", "2", "9">>,
     <<"2", "0", "2", "4", "-", "2", "-", "2", "9">>,
     <<"2", "9", "-", "0", "2", "-", "2", "0", "2", "4">>,
     <<"2", "0", "2", "4", "-", "0", "2", "-", "2", "a">>,
     <<"2", "0", "2", "4", "0", "2", "2", "9">>}

DateProbes == PatternedDates \cup UnpatternedDates

Amount1234 == <<"1", "2", "3", "4">>
Amount123456 == <<"1", ".", "2", "3", "4", ",", "5", "6">>
Amount12345Slip == <<"1", ".", "2", "3", ",", "4", "5">>
Amount1234567 == <<"1", ".", "2", "3", "4", ".", "5", "6", "7", ",", "8", "9">>

\* every string of at most MaxCurrencyLen characters over a digit, the dot
\* and the comma, and some longer or other ones
CurrencyProbes ==
    UNION {[1..n -> {"1", ".", ","}] : n \in 0..MaxCurrencyLen}
    \cup {Amount12345, Amount12345Slip, Amount123456, Amount1234, Amount1234567,
          <<"a", "b", "c">>, <<" ">>, <<" ", "1", " ">>, <<"1", " ", "1">>, <<"-", "1">>,
          <<"1", "a">>, <<"a", ",", ",">>, <<"a", ",", "1", "1", "1">>, <<"1", ",", "2", "3", " ">>}

\* the arguments of parseCurrency: those of validateCurrency but the one in
\* the millions
ParseProbes == CurrencyProbes \ {Amount1234567}

\* digit strings of 0 to 16 digits, cut from three longer ones, and texts
\* that already carry punctuation
FormatProbes ==
    {SubSeq(base, 1, n) :
        base \in {Cnpj11222333000181 \o <<"8", "1">>,
                  [k \in 1..16 |-> "0"],
                  [k \in 1..16 |-> DigitChars[(k % 10) + 1]]},
        n \in 0..16}
    \cup {CnpjPunctuated, SubSeq(CnpjPunctuated, 1, 11), CnpjPunctuated \o <<"8">>, <<".", "-">>}

MaxSmallAmount == 2000

\* the amounts stay below this number of units, within the range of the
\* integers the arithmetic is carried out in
AmountCeiling == 2 * Pow10(9)

\* amounts of the extraction: every multiple of 10^-FracDigits from -10 to
\* MaxSmallAmount of them, and larger ones around the rounding and grouping
\* boundaries (units of 10^-FracDigits)
ExtractedAmounts ==
    (-10..MaxSmallAmount)
    \cup {(whole * Unit) + (thousandths * (Unit \div 1000)) :
            whole \in {w \in {9, 99, 999, 1000, 1234, 9999, 99999, 999999, 1000000, 1234567} :
                          w < AmountCeiling \div Unit},
            thousandths \in {0, 4, 5, 560, 994, 995, 999}}
    \cup {-5 * Unit}

Probes ==
    {[kind |-> "cnpj", text |-> t] : t \in CnpjProbes}
    \cup {[kind |-> "date", text |-> t] : t \in DateProbes}
    \cup {[kind |-> "currency", text |-> t] : t \in CurrencyProbes}
    \cup {[kind |-> "parse", text |-> t] : t \in ParseProbes}
    \cup {[kind |-> "format", text |-> t] : t \in FormatProbes}
    \cup {[kind |-> "amount", text |-> <<>>]}

ValidatorInit ==
    /\ AppIdle
    /\ probe \in Probes
    /\ verdict = None

Judge(result) ==
    /\ verdict = None
    /\ verdict' = Some(result)
    /\ UNCHANGED <<ledgerVars, tableVars, categorizingId, processVars, editLookups,
                   categoryRequests, nextId, counterVars, filters, probe>>

ApplyValidateCNPJ == probe.kind = "cnpj" /\ Judge(validateCNPJ(probe.text))

\* the engine behind new Date(..) is either of the two
ApplyValidateDate ==
    /\ probe.kind = "date"
    /\ \E carry \in BOOLEAN : Judge(validateDateOn(probe.text, carry))

ApplyValidateCurrency == probe.kind = "currency" /\ Judge(validateCurrency(probe.text))

ApplyParseCurrency == probe.kind = "parse" /\ Judge([value |-> parseCurrency(probe.text)])

ApplyFormatCNPJ ==
    probe.kind = "format" /\ Judge([text |-> formatCNPJForDisplay(probe.text)])

\* the map of handleProcessFile over one extracted row whose debit and credit
\* are drawn from the amounts
ApplyFormatExtracted ==
    /\ probe.kind = "amount"
    /\ \E debit \in ExtractedAmounts : \E credit \in {0, debit, Unit - debit} :
           LET extracted == RawRow(Date20240229, TextPix, debit, credit, <<>>, <<>>, "", FALSE)
           IN  Judge([extracted |-> extracted, stored |-> FormatExtracted(<<extracted>>)[1]])

ValidatorNext ==
    \/ ApplyValidateCNPJ
    \/ ApplyValidateDate
    \/ ApplyValidateCurrency
    \/ ApplyParseCurrency
    \/ ApplyFormatCNPJ
    \/ ApplyFormatExtracted

ValidatorSpec == ValidatorInit /\ [][ValidatorNext]_vars

(***************************************************************************)
(* The view: FilterBar.tsx and the criteria it edits                       *)
(***************************************************************************)
Date20240110 == <<"2", "0", "2", "4", "-", "0", "1", "-", "1", "0">>
Date20240115 == <<"2", "0", "2", "4", "-", "0", "1", "-", "1", "5">>
Date20240201 == <<"2", "0", "2", "4", "-", "0", "2", "-", "0", "1">>

\* a statement with a row that carries both a debit and a credit
StatementBothSides ==
    [transactions |->
        <<RawRow(Date20240110, TextPix, 0, 100 * Unit, <<>>, <<>>, "Despesas Operacionais", FALSE),
          RawRow(Date20240115, TextTed, 50 * Unit, 0, <<>>, <<>>, "", TRUE),
          RawRow(Date20240201, TextPix \o <<" ">> \o TextTed, 10 * Unit, 30 * Unit,
                 <<>>, <<>>, "Outros", FALSE)>>,
     finalBalance |-> Some(70 * Unit)]

FilterStatements == {StatementThreeRows, StatementBothSides}

\* what the inputs and selects of the filter bar can be set to
FilterNames ==
    {"description", "startDate", "endDate", "minAmount", "maxAmount", "category",
     "showUnusual", "transactionType"}

FilterValues(name) ==
    CASE name = "description" -> {<<>>, <<"t", "e">>, <<"P", "I", "X">>}
      [] name = "startDate" -> {<<>>, Date20240115}
      [] name = "endDate" -> {<<>>, Date20240115}
      [] name = "minAmount" -> {<<>>, <<"5", "0">>}
      [] name = "maxAmount" -> {<<>>, <<"5", "0">>}
      [] name = "category" -> {"", "Despesas Operacionais"}
      [] name = "showUnusual" -> {"all", "unusualOnly", "commonOnly"}
      [] name = "transactionType" -> {"all", "debit", "credit"}

\* handleChange of the filter bar: onFilterChange({...filters, [name]: value})
handleChange(name, value) ==
    /\ TableShown
    /\ value # filters[name]
    /\ filters' = [filters EXCEPT ![name] = value]
    /\ UNCHANGED <<ledgerVars, tableVars, categorizingId, processVars, editLookups,
                   categoryRequests, nextId, counterVars, probeVars>>

handleClearFilters ==
    /\ TableShown
    /\ filters' = initialFilters
    /\ UNCHANGED <<ledgerVars, tableVars, categorizingId, processVars, editLookups,
                   categoryRequests, nextId, counterVars, probeVars>>

\* the promises of a batch once every lookup has failed
SettledByFailure(promises) ==
    [k \in 1..Len(promises) |->
        IF promises[k].settled THEN promises[k]
        ELSE [promises[k] EXCEPT !.settled = TRUE,
                                 !.suggestion = DateCorrectionOnFailure(promises[k].date)]]

\* the state handleProcessFile leaves for a statement
Ingested(response) ==
    LET withBalances == calculateBalances(FormatExtracted(response.transactions), 1)
    IN  /\ transactions = withBalances
        /\ statementBalance = response.finalBalance
        /\ dateErrors = DateErrorsOf(SettledByFailure(DatePromises(withBalances)))
        /\ cnpjErrors = CnpjErrorsOf(withBalances)
        /\ nextId = 1 + Len(withBalances)

\* the view is evaluated over the ledger of a processed statement
FilterInit ==
    /\ \E response \in FilterStatements : Ingested(response)
    /\ isLoading = FALSE
    /\ error = None
    /\ currencyErrors = EmptyTable
    /\ categorizingId = NoId
    /\ file = TRUE
    /\ processPc = "idle"
    /\ dateValidationPromises = <<>>
    /\ initialCnpjErrors = EmptyTable
    /\ editLookups = EmptyBag
    /\ categoryRequests = EmptyBag
    /\ uploads = 1
    /\ edits = 0
    /\ suggests = 0
    /\ filters = initialFilters
    /\ probe = NoProbe
    /\ verdict = None

FilterNext ==
    \/ \E name \in FilterNames : \E value \in FilterValues(name) : handleChange(name, value)
    \/ handleClearFilters

FilterSpec == FilterInit /\ [][FilterNext]_vars

(***************************************************************************)
(* Properties                                                              *)
(***************************************************************************)
Ids(list) == [k \in 1..Len(list) |-> list[k].id]

Balances(list) == [k \in 1..Len(list) |-> list[k].balance]

RowOf(id) == transactions[CHOOSE k \in 1..Len(transactions) : transactions[k].id = id]

HasRow(id) == \E k \in 1..Len(transactions) : transactions[k].id = id

\* C1: in every reachable state the balance of each row is the balance of the
\* row before it (0 before the first) plus parse(credit) minus parse(debit) of
\* the row, whatever was typed into the debit and credit cells.
C1_BalanceChain ==
    \A k \in 1..Len(transactions) :
        transactions[k].balance =
            (IF k = 1 THEN 0 ELSE transactions[k - 1].balance)
            + parseCurrency(transactions[k].credit) - parseCurrency(transactions[k].debit)

\* the debit of the second of three rows was edited from 50,00 to a value the
\* Currency Validator rejects: its balance and the later one moved, the
\* earlier one did not
C1_Witness ==
    /\ Len(transactions) = 3
    /\ transactions[2].debit = Amount12345
    /\ ~validateCurrency(transactions[2].debit).isValid
    /\ Balances(transactions) =
           <<100 * Unit, (100 * Unit) - (12345 * (Unit \div 100)),
             (125 * Unit) - (12345 * (Unit \div 100))>>

\* C2: the result of a date lookup requested by an edit, arriving when the
\* date of the row is no longer the one the lookup was requested for, leaves
\* the date-error table as it is.
C2_StaleLookupDiscarded ==
    [][\A request \in BagToSet(editLookups) :
           (/\ editLookups' = editLookups (-) SetToBag({request})
            /\ HasRow(request.id)
            /\ RowOf(request.id).date # request.date)
           => dateErrors' = dateErrors]_vars

\* C3: while the ledger has rows, the sequence of their ids changes only by a
\* reset.
C3_RowIdsStable ==
    [][(Len(transactions) > 0 /\ Ids(transactions') # Ids(transactions)) => handleReset]_vars

\* two edits were made, one left a value its validator rejects, and the three
\* rows are all there
C3_Witness ==
    /\ Len(transactions) = 3
    /\ edits = 2
    /\ currencyErrors # EmptyTable
    /\ \E k \in 1..3 : ~validateCurrency(transactions[k].debit).isValid

\* C4: loading is false only when no lookup of the batch is outstanding.
C4_LoadingUntilAllSettled ==
    ~isLoading => \A k \in 1..Len(dateValidationPromises) : dateValidationPromises[k].settled

\* the second lookup of a batch of two has settled before the first, and
\* loading is still on
C4_Witness ==
    /\ isLoading
    /\ Len(dateValidationPromises) = 2
    /\ dateValidationPromises[2].settled
    /\ ~dateValidationPromises[1].settled

\* C5: the step in which the extraction fails ends with the error set, loading
\* off, no rows and the three error tables empty.
C5_FailureLeavesNothing ==
    [][(processPc = "extracting" /\ processPc' = "idle" /\ error' # None)
       => (/\ ~isLoading'
           /\ transactions' = <<>>
           /\ dateErrors' = EmptyTable
           /\ cnpjErrors' = EmptyTable
           /\ currencyErrors' = EmptyTable)]_vars

\* the entry the failure of the oracle must leave for a lookup
FallbackEntry(date) == [message |-> validateDate(date).message, suggestion |-> None]

\* C6: a step in which the date oracle fails changes neither the error state
\* nor the rows; for a lookup of an edit the entry of the row becomes the
\* message of the validator with no suggestion; for a lookup of the batch the
\* same entry is what the batch will record and, when the step ends the batch,
\* what the table holds, with the error unset.
C6_OracleFailureAbsorbed ==
    [][/\ \A request \in BagToSet(editLookups) :
              DateOracleFailsEdit(request)
              => /\ error' = error
                 /\ transactions' = transactions
                 /\ request.id \in DOMAIN dateErrors'
                 /\ dateErrors'[request.id] = FallbackEntry(request.date)
       /\ \A k \in 1..Len(dateValidationPromises) :
              DateOracleFailsBatch(k)
              => LET p == dateValidationPromises[k]
                 IN  /\ error' = None
                     /\ transactions' = transactions
                     /\ RowOf(p.id).date = p.date
                     /\ IF isLoading'
                        THEN \E j \in 1..Len(dateValidationPromises') :
                                 /\ dateValidationPromises'[j].id = p.id
                                 /\ dateValidationPromises'[j].settled
                                 /\ DateErrorEntry(dateValidationPromises'[j].message,
                                                   dateValidationPromises'[j].suggestion,
                                                   dateValidationPromises'[j].date)
                                    = FallbackEntry(p.date)
                        ELSE /\ p.id \in DOMAIN dateErrors'
                             /\ dateErrors'[p.id] = FallbackEntry(p.date)]_vars

\* a row holds an invalid date the oracle was asked about, its entry is the
\* message of the validator without a suggestion, and no error is shown
C6_Witness ==
    /\ error = None
    /\ \E k \in 1..Len(transactions) :
           /\ transactions[k].date = Date20230229
           /\ transactions[k].id \in DOMAIN dateErrors
           /\ dateErrors[transactions[k].id] = FallbackEntry(Date20230229)

\* C7: at most one category request is in flight, and one is in flight exactly
\* while the busy flag is set.
C7_OneCategoryRequest ==
    /\ BagCardinality(categoryRequests) <= 1
    /\ (categorizingId # NoId) = (BagCardinality(categoryRequests) = 1)

\* a request is in flight while the table, with its suggestion buttons, is
\* shown and another request would still be within the bound
C7_Witness ==
    /\ TableShown
    /\ categorizingId # NoId
    /\ BagCardinality(categoryRequests) = 1
    /\ suggests < MaxSuggests

RECURSIVE NetOf(_, _)
NetOf(list, k) ==
    IF k = 0 THEN 0
    ELSE NetOf(list, k - 1) + parseCurrency(list[k].credit) - parseCurrency(list[k].debit)

\* C8: the mismatch flag is true exactly when a final balance is declared,
\* the ledger has rows, and the running balance of the rows as they are now
\* differs from the declared one by more than 0.01.
C8_MismatchFlag ==
    balanceMismatch =
        (/\ statementBalance # None
         /\ Len(transactions) > 0
         /\ Abs(NetOf(transactions, Len(transactions)) - statementBalance[1]) > Unit \div 100)

\* declared 125 and, after the debit of the second row was edited to 0,
\* computed 125: no mismatch
C8_Witness ==
    /\ statementBalance = Some(125 * Unit)
    /\ Len(transactions) = 3
    /\ transactions[2].debit = <<"0">>
    /\ transactions[3].balance = 125 * Unit
    /\ ~balanceMismatch

\* the fields whose edit the handler does not validate
QuietFields == {"description", "companyName", "category"}

\* the stored date, cnpj, debit and credit of every row are as they were
ValidatedCellsKept ==
    /\ Ids(transactions') = Ids(transactions)
    /\ \A k \in 1..Len(transactions) :
           /\ transactions'[k].date = transactions[k].date
           /\ transactions'[k].cnpj = transactions[k].cnpj
           /\ transactions'[k].debit = transactions[k].debit
           /\ transactions'[k].credit = transactions[k].credit

\* a step of handleFieldChange on a description, companyName or category cell.
\* Such a step stores the row with that one cell replaced, so the first two
\* conjuncts follow from the third; they come first because they are cheap.
QuietEdit ==
    /\ edits' = edits + 1
    /\ ValidatedCellsKept
    /\ \E i \in 1..Len(transactions), field \in QuietFields :
           \E value \in FieldInputs(field) : handleFieldChange(i, field, value)

\* a step in which handleSuggestCategory resumes with the answer
CategoryApplied == BagCardinality(categoryRequests') < BagCardinality(categoryRequests)

\* C9: an edit of description, companyName or category, the applied result of
\* a category suggestion included, leaves the three error tables as they are.
C9_QuietFieldsKeepTables ==
    [][UNCHANGED tableVars \/ ~(CategoryApplied \/ QuietEdit)]_vars

\* the description of a row of the three-row statement, which has a date
\* error since the ingest, was edited and the entry is still there
C9_Witness ==
    \E k \in 1..Len(transactions) :
        /\ Len(transactions) = 3
        /\ transactions[k].description = TextBlank
        /\ transactions[k].date = Date20230229
        /\ transactions[k].id \in DOMAIN dateErrors
        /\ edits > 0

\* C10: the stored cnpj of every row is made of digits only.
C10_CnpjDigitsOnly ==
    \A k \in 1..Len(transactions) :
        \A j \in 1..Len(transactions[k].cnpj) : IsDigit(transactions[k].cnpj[j])

\* C11: in every reachable state a suggestion stored in the date-error entry of
\* a row is a date the Date Validator accepts and is not the date the row
\* holds now.
C11_SuggestionValidAndNew ==
    \A k \in 1..Len(transactions) :
        (/\ transactions[k].id \in DOMAIN dateErrors
         /\ dateErrors[transactions[k].id].suggestion # None)
        => /\ validateDate(dateErrors[transactions[k].id].suggestion[1]).isValid
           /\ dateErrors[transactions[k].id].suggestion[1] # transactions[k].date

\* the category the row with this id will have after the step, if it is there
CategoryAfter(id) ==
    {transactions'[k].category : k \in {j \in 1..Len(transactions') : transactions'[j].id = id}}

\* C12: when a category request completes, the category of its row is the one
\* the request was issued with or a member of the enumeration; and when the
\* oracle fails, answers outside the enumeration or answers the category the
\* request was issued with, the ledger is left as it is.
C12_CategoryResultChecked ==
    [][CategoryApplied =>
       \A request \in BagToSet(categoryRequests) :
           /\ CategoryAfter(request.transaction.id)
                  \subseteq ({request.transaction.category} \cup TRANSACTION_CATEGORIES)
           /\ CategoryOracleFails(request) => transactions' = transactions
           /\ \A text \in CategoryOracleTexts :
                  (/\ CategoryOracleAnswers(request, text)
                   /\ (text \notin TRANSACTION_CATEGORIES \/ text = request.transaction.category))
                  => transactions' = transactions]_vars

\* no field was edited, and the category of the second row is no longer the
\* one it was ingested with: an answer of the oracle was applied
C12_Witness ==
    /\ Len(transactions) = 3
    /\ edits = 0
    /\ categorizingId = NoId
    /\ transactions[2].category = "Despesas Operacionais"

\* the position of a row of the view in the ledger
PositionOf(row) ==
    CHOOSE k \in 0..Len(transactions) :
        IF \E j \in 1..Len(transactions) : transactions[j] = row
        THEN k > 0 /\ transactions[k] = row
        ELSE k = 0

\* C13: the view is made of rows of the ledger in the order of the ledger, and
\* a step that changes the criteria leaves the ledger, the declared balance
\* and the three error tables as they are.
C13_ViewIsPure ==
    /\ [](/\ \A k \in 1..Len(filteredTransactions) : PositionOf(filteredTransactions[k]) > 0
          /\ \A k \in 1..(Len(filteredTransactions) - 1) :
                 PositionOf(filteredTransactions[k]) < PositionOf(filteredTransactions[k + 1]))
    /\ [][filters' # filters => UNCHANGED <<transactions, statementBalance, tableVars>>]_vars

\* criteria are set that keep two of the three rows, the first and the last
C13_Witness ==
    /\ filters # initialFilters
    /\ Len(transactions) = 3
    /\ Len(filteredTransactions) = 2
    /\ filteredTransactions[1] = transactions[1]
    /\ filteredTransactions[2] = transactions[3]

\* |parse(credit) - parse(debit)| of a row
AbsoluteAmount(t) == Abs(parseCurrency(t.credit) - parseCurrency(t.debit))

\* a <= b of two strings
StringAtMost(a, b) == a = b \/ StringLess(a, b)

\* the criteria one by one, each open when left at its empty or 'all' value
DescriptionCriterion(t) ==
    filters.description = <<>>
    \/ \E k \in 0..(Len(t.description) - Len(filters.description)) :
           \A j \in 1..Len(filters.description) :
               toLowerCase(<<t.description[k + j]>>) = toLowerCase(<<filters.description[j]>>)

CategoryCriterion(t) == filters.category = "" \/ t.category = filters.category

UnusualCriterion(t) ==
    CASE filters.showUnusual = "all" -> TRUE
      [] filters.showUnusual = "unusualOnly" -> t.isUnusual
      [] filters.showUnusual = "commonOnly" -> ~t.isUnusual

DateCriterion(t) ==
    /\ filters.startDate = <<>> \/ StringAtMost(filters.startDate, t.date)
    /\ filters.endDate = <<>> \/ StringAtMost(t.date, filters.endDate)

AmountCriterion(t) ==
    /\ filters.minAmount = <<>> \/ AbsoluteAmount(t) >= parseFloat(filters.minAmount).v
    /\ filters.maxAmount = <<>> \/ AbsoluteAmount(t) <= parseFloat(filters.maxAmount).v

TypeCriterion(t) ==
    CASE filters.transactionType = "all" -> TRUE
      [] filters.transactionType = "debit" -> parseCurrency(t.debit) > 0
      [] filters.transactionType = "credit" -> parseCurrency(t.credit) > 0

InView(t) == \E k \in 1..Len(filteredTransactions) : filteredTransactions[k] = t

\* C14: a row of the ledger is in the view exactly when it passes every
\* criterion, a criterion at its empty or 'all' value passing every row; with
\* the cleared criteria the view is the ledger.
C14_ViewIsConjunction ==
    /\ \A k \in 1..Len(transactions) :
           InView(transactions[k])
           <=> (/\ DescriptionCriterion(transactions[k])
                /\ CategoryCriterion(transactions[k])
                /\ UnusualCriterion(transactions[k])
                /\ DateCriterion(transactions[k])
                /\ AmountCriterion(transactions[k])
                /\ TypeCriterion(transactions[k]))
    /\ filters = initialFilters => filteredTransactions = transactions

\* both bounds of the amount are 50 and a text is searched in another case
\* than the row has it: the row of amount exactly 50 is the view
C14_Witness ==
    /\ filters.minAmount = <<"5", "0">>
    /\ filters.maxAmount = <<"5", "0">>
    /\ filters.description = <<"t", "e">>
    /\ Len(transactions) = 3
    /\ Len(filteredTransactions) = 1
    /\ filteredTransactions[1].description = TextTed
    /\ AbsoluteAmount(filteredTransactions[1]) = 50 * Unit

\* C15: with only the type set, 'debit' gives exactly the rows whose debit
\* parses above 0 and 'credit' exactly those whose credit parses above 0, in
\* the order of the ledger; a row with both is in both views.
C15_TypeOnly ==
    /\ filters = [initialFilters EXCEPT !.transactionType = "debit"]
       => filteredTransactions = SelectSeq(transactions, LAMBDA t : parseCurrency(t.debit) > 0)
    /\ filters = [initialFilters EXCEPT !.transactionType = "credit"]
       => filteredTransactions = SelectSeq(transactions, LAMBDA t : parseCurrency(t.credit) > 0)

\* the ledger with debits 0, 50, 0 filtered by 'debit': the view is the row
\* of 50
C15_Witness ==
    /\ filters = [initialFilters EXCEPT !.transactionType = "debit"]
    /\ Len(transactions) = 3
    /\ parseCurrency(transactions[1].debit) = 0
    /\ parseCurrency(transactions[2].debit) = 50 * Unit
    /\ parseCurrency(transactions[3].debit) = 0
    /\ filteredTransactions = <<transactions[2]>>

\* the verdict of the Identifier Validator on the argument, once given
CnpjJudged == probe.kind = "cnpj" /\ verdict # None

\* C16 as stated: every argument whose digits are not 14 in number is
\* rejected.
C16_WrongLengthRejected ==
    (CnpjJudged /\ Len(StripNonDigits(probe.text)) # 14) => ~verdict[1].isValid

\* C16, with the empty argument set apart: every argument that is not empty
\* and whose digits are not 14 in number is rejected, with the message about
\* the 14 numbers.
C16_NonEmptyWrongLengthRejected ==
    (CnpjJudged /\ probe.text # <<>> /\ Len(StripNonDigits(probe.text)) # 14)
    => verdict[1] = Invalid("O CNPJ deve ter 14 numeros.")

\* an argument of 15 digits, the first 14 of which are a correct identifier,
\* was rejected
C16_Witness ==
    /\ CnpjJudged
    /\ probe.text = Cnpj11222333000181 \o <<"1">>
    /\ ~verdict[1].isValid

\* a step in which handleProcessFile ends without an error
IngestFinished == isLoading /\ ~isLoading' /\ error' = None

\* C17: a row ingested without an identifier has no identifier error when the
\* ingest ends, and a row whose identifier is cleared by an edit has none
\* after the edit.
C17_AbsentIdentifierNoError ==
    [][/\ IngestFinished
          => \A k \in 1..Len(transactions') :
                 transactions'[k].cnpj = <<>> => transactions'[k].id \notin DOMAIN cnpjErrors'
       /\ (edits' = edits + 1 /\ Ids(transactions') = Ids(transactions))
          => \A k \in 1..Len(transactions) :
                 (transactions[k].cnpj # <<>> /\ transactions'[k].cnpj = <<>>)
                 => transactions'[k].id \notin DOMAIN cnpjErrors']_vars

\* of three rows the second came without an identifier and the third, which
\* came with a rejected one, had it cleared: neither has an identifier error
C17_Witness ==
    /\ Len(transactions) = 3
    /\ edits > 0
    /\ transactions[2].cnpj = <<>>
    /\ transactions[3].cnpj = <<>>
    /\ transactions[2].id \notin DOMAIN cnpjErrors
    /\ transactions[3].id \notin DOMAIN cnpjErrors

\* the weight of the digit at position k of the first n digits: 2 for the
\* last one, growing by one to the left, back to 2 after 9
WeightFromRight(n, k) == 2 + ((n - k) % 8)

RECURSIVE WeightedDigits(_, _, _)
WeightedDigits(digits, n, k) ==
    IF k = 0 THEN 0
    ELSE DigitVal(digits[k]) * WeightFromRight(n, k) + WeightedDigits(digits, n, k - 1)

\* the modulus-11 check digit of the first n digits
Mod11Check(digits, n) ==
    LET r == WeightedDigits(digits, n, n) % 11 IN IF r < 2 THEN 0 ELSE 11 - r

\* what the rule says of 14 digits
ChecksumRule(digits) ==
    /\ \E k \in 2..14 : digits[k] # digits[1]
    /\ DigitVal(digits[13]) = Mod11Check(digits, 12)
    /\ DigitVal(digits[14]) = Mod11Check(digits, 13)

\* C18: an argument with exactly 14 digits is accepted exactly when the
\* digits are not one digit repeated and digits 13 and 14 are the modulus-11
\* check digits of the first 12 and of the first 13 digits; so a correct
\* identifier with either check digit changed is rejected.
C18_ChecksumDecides ==
    (CnpjJudged /\ Len(StripNonDigits(probe.text)) = 14)
    => /\ verdict[1].isValid <=> ChecksumRule(StripNonDigits(probe.text))
       /\ \A base \in CnpjBases, k \in {13, 14} :
              (probe.text # base /\ \E d \in 1..10 : probe.text = [base EXCEPT ![k] = DigitChars[d]])
              => ~verdict[1].isValid

\* 11222333000181 was accepted
C18_Witness ==
    /\ CnpjJudged
    /\ probe.text = Cnpj11222333000181
    /\ verdict[1].isValid

DateJudged == probe.kind = "date" /\ verdict # None

MonthLengths == <<31, 28, 31, 30, 31, 30, 31, 31, 30, 31, 30, 31>>

GregorianLeapYear(y) == y % 4 = 0 /\ (y % 100 # 0 \/ y % 400 = 0)

\* 4 digits, '-', 2 digits, '-', 2 digits that name a day of the calendar
IsCalendarDate(s) ==
    /\ Len(s) = 10
    /\ s[5] = "-" /\ s[8] = "-"
    /\ \A k \in (1..10) \ {5, 8} : s[k] \in {DigitChars[d] : d \in 1..10}
    /\ LET y == DigitsToNat(SubSeq(s, 1, 4))
           m == DigitsToNat(SubSeq(s, 6, 7))
           d == DigitsToNat(SubSeq(s, 9, 10))
       IN  /\ m \in 1..12
           /\ d >= 1
           /\ d <= MonthLengths[m] + (IF m = 2 /\ GregorianLeapYear(y) THEN 1 ELSE 0)

\* C19: the Date Validator accepts an argument exactly when it has the
\* pattern and names a day of the Gregorian calendar, whichever way the engine
\* treats a day past the end of a month; the empty string, 2023-02-29 and
\* 2023-13-01 are rejected and 2024-02-29 is accepted.
C19_RealDatesOnly ==
    DateJudged
    => /\ verdict[1].isValid <=> IsCalendarDate(probe.text)
       /\ probe.text \in {<<>>, Date20230229, Date20231301} => ~verdict[1].isValid
       /\ probe.text = Date20240229 => verdict[1].isValid

\* 2024-02-29 was accepted
C19_Witness ==
    /\ DateJudged
    /\ probe.text = Date20240229
    /\ verdict[1].isValid

CurrencyJudged == probe.kind = "currency" /\ verdict # None

\* the groups the dots cut the integer part into
IntegerGroups(s) == Split(Split(Trim(s), ",")[1], ".")

\* the leftmost group has 1 to 3 characters and every later one exactly 3
GroupingRule(groups) ==
    /\ Len(groups[1]) \in 1..3
    /\ \A k \in 2..Len(groups) : Len(groups[k]) = 3

\* C20: an argument whose integer part is cut by dots into groups that break
\* the rule (leftmost group of 1 to 3 digits, every later group of exactly 3)
\* is rejected; 12.3,45 and 1.23,45 are rejected and 1.234,56 is accepted.
C20_GroupingEnforced ==
    CurrencyJudged
    => /\ (/\ Trim(probe.text) # <<>>
           /\ Len(IntegerGroups(probe.text)) > 1
           /\ ~GroupingRule(IntegerGroups(probe.text)))
          => ~verdict[1].isValid
       /\ probe.text \in {Amount12345, Amount12345Slip} => ~verdict[1].isValid
       /\ probe.text = Amount123456 => verdict[1].isValid

Parsed == probe.kind = "parse" /\ verdict # None

\* C21 as stated: parseCurrency gives a number for every argument, 0 for the
\* empty string, 0 for every argument the Currency Validator rejects, and
\* 1234.56 for 1.234,56.
C21_RejectedParsesToZero ==
    Parsed
    => /\ verdict[1].value \in Int
       /\ probe.text = <<>> => verdict[1].value = 0
       /\ ~validateCurrency(probe.text).isValid => verdict[1].value = 0
       /\ probe.text = Amount123456 => verdict[1].value = 123456 * (Unit \div 100)

\* the text after the dots are removed and the first comma is made a dot,
\* leading white space and one sign dropped
Unsigned(s) ==
    LET t == TrimStart(ReplaceFirstComma(SelectSeq(s, LAMBDA c : c # ".")))
    IN  IF t # <<>> /\ t[1] \in {"+", "-"} THEN Tail(t) ELSE t

\* a number can be read at the start: a digit, or a point and a digit
StartsWithNumber(s) ==
    LET u == Unsigned(s)
    IN  \/ u # <<>> /\ IsDigit(u[1])
        \/ Len(u) >= 2 /\ u[1] = "." /\ IsDigit(u[2])

\* the amount an accepted text writes: the digits before the comma and the
\* digits, two at most, after it
WrittenAmount(s) ==
    LET parts == Split(Trim(s), ",")
        cents == IF Len(parts) > 1 THEN StripNonDigits(parts[2]) ELSE <<>>
    IN  DigitsToNat(StripNonDigits(parts[1])) * Unit
        + DigitsToNat(cents) * Pow10(FracDigits - Len(cents))

\* C21, amended: parseCurrency gives a number for every argument; 0 for the
\* empty string and for every argument that, once the dots are removed and
\* the comma made a point, does not start with a number (abc); the amount
\* written for every argument the Currency Validator accepts (1234.56 for
\* 1.234,56); and the leading number of a rejected argument that starts with
\* one (123.45 for 12.3,45).
C21_ParseReadsLeadingNumber ==
    Parsed
    => /\ verdict[1].value \in Int
       /\ probe.text = <<>> => verdict[1].value = 0
       /\ ~StartsWithNumber(probe.text) => verdict[1].value = 0
       /\ probe.text = <<"a", "b", "c">> => verdict[1].value = 0
       /\ validateCurrency(probe.text).isValid => verdict[1].value = WrittenAmount(probe.text)
       /\ probe.text = Amount123456 => verdict[1].value = 123456 * (Unit \div 100)
       /\ probe.text = Amount12345 => verdict[1].value = 12345 * (Unit \div 100)

\* 12.3,45, which the Currency Validator rejects, was parsed to 123.45
C21_Witness ==
    /\ Parsed
    /\ probe.text = Amount12345
    /\ ~validateCurrency(probe.text).isValid
    /\ verdict[1].value = 12345 * (Unit \div 100)

CurrencyFields == {"debit", "credit"}

\* C22: a step of handleFieldChange on the debit or credit cell of a row
\* leaves an entry under the key of that row and that cell exactly when the
\* new value fails validateCurrency, and leaves every other key of
\* currencyErrors, with its entry, as it was.
C22_CurrencyEditOwnKey ==
    [][edits' = edits + 1
       => \A i \in 1..Len(transactions), field \in CurrencyFields, value \in AmountEdits :
              (/\ transactions'[i][field] = value
               /\ handleFieldChange(i, field, value))
              => LET key == <<transactions[i].id, field>>
                 IN  /\ key \in DOMAIN currencyErrors' <=> ~validateCurrency(value).isValid
                     /\ DOMAIN currencyErrors' \ {key} = DOMAIN currencyErrors \ {key}
                     /\ \A other \in DOMAIN currencyErrors \ {key} :
                            currencyErrors'[other] = currencyErrors[other]]_vars

\* the debit and the credit of one row were both edited to a rejected text
\* and each has its own entry
C22_Witness ==
    \E i \in 1..Len(transactions) :
        /\ transactions[i].debit = Amount12345
        /\ transactions[i].credit = Amount12345
        /\ <<transactions[i].id, "debit">> \in DOMAIN currencyErrors
        /\ <<transactions[i].id, "credit">> \in DOMAIN currencyErrors
        /\ edits = 2

\* C23: in the step that ends an ingest with loading cleared and no error,
\* every row of the ledger has an entry in dateErrors exactly when
\* validateDate rejects its date and an entry in cnpjErrors exactly when
\* validateCNPJ rejects its cnpj.
C23_IngestTablesExact ==
    [][IngestFinished
       => \A k \in 1..Len(transactions') :
              /\ transactions'[k].id \in DOMAIN dateErrors'
                 <=> ~validateDate(transactions'[k].date).isValid
              /\ transactions'[k].id \in DOMAIN cnpjErrors'
                 <=> ~validateCNPJ(transactions'[k].cnpj).isValid]_vars

\* the three-row statement right after its ingest: the first row, valid in
\* both, has no entry, the two rows with a rejected date have a date entry
\* and the row with a rejected identifier has an identifier entry
C23_Witness ==
    /\ ~isLoading
    /\ error = None
    /\ edits = 0
    /\ suggests = 0
    /\ uploads = 1
    /\ Len(transactions) = 3
    /\ DOMAIN dateErrors = {transactions[2].id, transactions[3].id}
    /\ DOMAIN cnpjErrors = {transactions[3].id}
    /\ validateDate(transactions[1].date).isValid
    /\ ~validateDate(transactions[2].date).isValid
    /\ ~validateCNPJ(transactions[3].cnpj).isValid

MessageIllegalCharacter == "Use apenas numeros, virgulas e pontos."
MessageManyCommas == "Apenas uma virgula e permitida."
MessageLongDecimals == "Apenas duas casas decimais sao permitidas."

HasIllegalCharacter(s) == \E k \in 1..Len(s) : ~IsDigit(s[k]) /\ s[k] \notin {",", "."}

Commas(s) == Cardinality({k \in 1..Len(s) : s[k] = ","})

\* the number of characters after the first comma, 0 when there is none
AfterComma(s) ==
    IF \E k \in 1..Len(s) : s[k] = ","
    THEN Len(s) - (CHOOSE k \in 1..Len(s) : s[k] = "," /\ \A j \in 1..(k - 1) : s[j] # ",")
    ELSE 0

\* the three rejections in their order, each with its message, for the text s
EarlyRejections(s, result) ==
    IF HasIllegalCharacter(s)
    THEN ~result.isValid /\ result.message = MessageIllegalCharacter
    ELSE IF Commas(s) > 1
    THEN ~result.isValid /\ result.message = MessageManyCommas
    ELSE IF AfterComma(s) > 2
    THEN ~result.isValid /\ result.message = MessageLongDecimals
    ELSE TRUE

IsBlank(s) == \A k \in 1..Len(s) : s[k] = " "

\* C24 as stated: validateCurrency accepts the empty and the blank argument;
\* it rejects every other argument that holds a character other than a
\* digit, a comma or a dot, else one with more than one comma, else one with
\* more than two characters after the comma, each with its own message.
C24_EarlyRejectionsOfInput ==
    CurrencyJudged
    => IF IsBlank(probe.text) THEN verdict[1].isValid
       ELSE EarlyRejections(probe.text, verdict[1])

\* C24, amended: the same, with the three tests applied to the argument
\* without its leading and trailing white space.
C24_EarlyRejectionsOfTrimmed ==
    CurrencyJudged
    => /\ Cardinality({MessageIllegalCharacter, MessageManyCommas, MessageLongDecimals}) = 3
       /\ IF IsBlank(probe.text) THEN verdict[1].isValid
          ELSE EarlyRejections(Trim(probe.text), verdict[1])

\* a,, which has an illegal character and two commas, was rejected for the
\* character
C24_Witness ==
    /\ CurrencyJudged
    /\ probe.text = <<"a", ",", ",">>
    /\ ~verdict[1].isValid
    /\ verdict[1].message = MessageIllegalCharacter

Formatted == probe.kind = "format" /\ verdict # None

\* NN.NNN.NNN/NNNN-NN
CnpjMask ==
    <<"N", "N", ".", "N", "N", "N", ".", "N", "N", "N", "/", "N", "N", "N", "N", "-", "N", "N">>

\* s with every digit replaced by N
Shape(s) == [k \in 1..Len(s) |-> IF IsDigit(s[k]) THEN "N" ELSE s[k]]

\* C25: for digits d of at most 14 the text formatCNPJForDisplay returns has
\* the digits d, in order, and the shape of a prefix of NN.NNN.NNN/NNNN-NN;
\* 11222333000181 gives 11.222.333/0001-81; for more than 14 digits the text
\* has 18 characters, the whole mask filled with the first 14 digits.
C25_FormatOnlyPunctuates ==
    Formatted
    => LET d == SelectSeq(probe.text, IsDigit)
           out == verdict[1].text
       IN  /\ Len(d) <= 14
              => /\ SelectSeq(out, IsDigit) = d
                 /\ Len(out) <= Len(CnpjMask)
                 /\ Shape(out) = SubSeq(CnpjMask, 1, Len(out))
           /\ probe.text = Cnpj11222333000181 => out = CnpjPunctuated
           /\ Len(d) > 14
              => /\ Len(out) = 18
                 /\ Shape(out) = CnpjMask
                 /\ SelectSeq(out, IsDigit) = SubSeq(d, 1, 14)

\* sixteen digits were formatted to the mask filled with the first fourteen
C25_Witness ==
    /\ Formatted
    /\ probe.text = Cnpj11222333000181 \o <<"8", "1">>
    /\ verdict[1].text = CnpjPunctuated

\* the cells of a row other than its category
OtherCells(t) == <<t.date, t.description, t.companyName, t.cnpj, t.debit, t.credit>>

\* the identifier table has an entry for the row exactly when validateCNPJ
\* rejects its cnpj, and the currency table for each amount cell likewise
TablesDescribe(t, cnpjTable, currencyTable) ==
    /\ t.id \in DOMAIN cnpjTable <=> ~validateCNPJ(t.cnpj).isValid
    /\ <<t.id, "debit">> \in DOMAIN currencyTable <=> ~validateCurrency(t.debit).isValid
    /\ <<t.id, "credit">> \in DOMAIN currencyTable <=> ~validateCurrency(t.credit).isValid

\* C26: the step in which a category request completes leaves the date,
\* description, companyName, cnpj, debit and credit of every row as they
\* were just before it, edits made since the request was issued included,
\* and a row the identifier and currency tables described before the step
\* is still described by them after it.
C26_CategoryResultKeepsEdits ==
    [][CategoryApplied
       => /\ Len(transactions') = Len(transactions)
          /\ \A k \in 1..Len(transactions) :
                 /\ OtherCells(transactions'[k]) = OtherCells(transactions[k])
                 /\ TablesDescribe(transactions[k], cnpjErrors, currencyErrors)
                    => TablesDescribe(transactions'[k], cnpjErrors', currencyErrors')]_vars

\* no date lookup is outstanding, neither of an ingest nor of an edit
NoLookupOutstanding ==
    /\ editLookups = EmptyBag
    /\ \A k \in 1..Len(dateValidationPromises) : dateValidationPromises[k].settled
    /\ processPc = "idle"

\* C27: in every state with no date lookup outstanding, every row has an
\* entry in dateErrors exactly when validateDate rejects the date it holds,
\* and the message of the entry is the message of validateDate for that date.
C27_DateTableSettles ==
    NoLookupOutstanding
    => \A k \in 1..Len(transactions) :
           LET id == transactions[k].id
               result == validateDate(transactions[k].date)
           IN  /\ id \in DOMAIN dateErrors <=> ~result.isValid
               /\ id \in DOMAIN dateErrors => dateErrors[id].message = result.message

\* C28: in every reachable state every key of dateErrors and cnpjErrors is
\* the id of a row of the ledger and every key of currencyErrors is made of
\* one; so while the ledger is empty, after a reset or a new upload and
\* before the rows of the next ingest, the three tables are empty.
C28_TableKeysAreRows ==
    LET ids == {transactions[k].id : k \in 1..Len(transactions)}
    IN  /\ DOMAIN dateErrors \subseteq ids
        /\ DOMAIN cnpjErrors \subseteq ids
        /\ \A key \in DOMAIN currencyErrors : key[1] \in ids

\* C29: whenever the busy flag is set a request is in flight, the step that
\* completes a request clears the flag, and, the oracle settling every
\* request, a set flag is eventually cleared.
C29_BusyFlagCleared ==
    /\ [](categorizingId # NoId => categoryRequests # EmptyBag)
    /\ [][CategoryApplied => categorizingId' = NoId]_vars
    /\ (categorizingId # NoId) ~> (categorizingId = NoId)

\* the flag is set for a request still in flight and the ledger has been
\* emptied by a reset since the request was issued
C29_Witness ==
    /\ categorizingId # NoId
    /\ categoryRequests # EmptyBag
    /\ transactions = <<>>
    /\ ~file

AmountStored == probe.kind = "amount" /\ verdict # None

\* x rounded to two decimals, halves up
RoundedToCents(x) == ((x + (Unit \div 200)) \div (Unit \div 100)) * (Unit \div 100)

\* the text stored for the amount passes validateCurrency; for an amount
\* above 0 it parses to the amount rounded to two decimals; for an amount of
\* 0 or less it is empty and parses to 0
RoundTrips(amount, text) ==
    /\ validateCurrency(text).isValid
    /\ amount > 0 => parseCurrency(text) = RoundedToCents(amount)
    /\ amount <= 0 => text = <<>> /\ parseCurrency(text) = 0

\* C30: the debit and the credit stored at ingest for a row of the
\* extraction pass validateCurrency and round-trip through parseCurrency, so
\* neither needs a currency-error entry.
C30_IngestedAmountsRoundTrip ==
    AmountStored
    => /\ RoundTrips(verdict[1].extracted.debit, verdict[1].stored.debit)
       /\ RoundTrips(verdict[1].extracted.credit, verdict[1].stored.credit)

\* 9999.995 was stored as 10.000,00 and 0 as the empty text
C30_Witness ==
    /\ AmountStored
    /\ verdict[1].extracted.debit = (9999 * Unit) + (995 * (Unit \div 1000))
    /\ verdict[1].stored.debit = <<"1", "0", ".", "0", "0", "0", ",", "0", "0">>
    /\ verdict[1].extracted.credit = 0
    /\ verdict[1].stored.credit = <<>>

====
